---- MODULE Spec2Model ----
(***************************************************************************)
(* Steam mass launch options setter (steam_mass_launch_ops_setter.pyw).    *)
(*                                                                         *)
(* The state is the Tk main window (MainWindow) together with the          *)
(* localconfig.vdf file of every user folder under Steam/userdata.  A      *)
(* string is a sequence of symbols; a symbol is either one of the format's *)
(* special characters (quote, backslash, braces, white space) or a block   *)
(* of ordinary characters such as "LaunchOptions".  A file is the sequence *)
(* of symbols it holds, a parsed document is an ordered tree.              *)
(***************************************************************************)
EXTENDS Integers, Sequences, FiniteSets, TLC

VARIABLES
    files,           \* loc_user_id -> content of userdata/<id>/config/localconfig.vdf
    user_datas,      \* self.user_datas: loc_user_id -> parsed document
    user_local_ids,  \* self.user_local_ids: user name -> loc_user_id
    user_choice,     \* self.user_choice (StringVar): the selected user name
    statistics,      \* self.statistics (StringVar): the two numbers it shows
    overwrite,       \* self.overwrite (BooleanVar): the "Overwrite" checkbox
    ops_entry,       \* self.ops_entry: text of the "Launch options:" field
    dialog,          \* the message box shown by the last handler, or "none"
    last,            \* the last completed set_launch_options call: what it was
                     \* asked, what it loaded, what it left and what it counted
    prev,            \* the call before that, when it asked for the same as the last
    rt_pc,           \* round-trip exercise: position
    rt_in,           \* round-trip exercise: the input bytes b
    rt_doc,          \* round-trip exercise: Parse(b)
    rt_out,          \* round-trip exercise: Serialize(Parse(b))
    rt_doc2          \* round-trip exercise: Parse(Serialize(Parse(b)))

gui_vars == <<files, user_datas, user_local_ids, user_choice, statistics,
              overwrite, ops_entry, dialog, last, prev>>
rt_vars == <<rt_pc, rt_in, rt_doc, rt_out, rt_doc2>>
vars == <<gui_vars, rt_vars>>

(***************************************************************************)
(* Bounds of the model.                                                    *)
(***************************************************************************)
\* The largest number of app records in the Steam library of the first user.
MaxApps == 2
\* The largest number of key/value pairs in a round-trip input.
MaxPairs == 2

(***************************************************************************)
(* Symbols of the wire format.                                             *)
(***************************************************************************)
QUOTE == "\""
BSLASH == "\\"
LBRACE == "{"
RBRACE == "}"
TAB == "\t"
NL == "\n"
SP == " "
WhiteSpace == {TAB, NL, SP}

\* A string of one ordinary block.
Str(x) == <<x>>

(***************************************************************************)
(* Documents: ordered trees, as a Python dict of str and dict values.      *)
(***************************************************************************)
Leaf(s) == [leaf |-> TRUE, v |-> s, kids |-> <<>>]
Section(pairs) == [leaf |-> FALSE, v |-> <<>>, kids |-> pairs]
Pair(key, node) == [k |-> key, n |-> node]

\* key in d
Has(d, key) == \E i \in 1..Len(d.kids) : d.kids[i].k = key

IndexOf(d, key) == CHOOSE i \in 1..Len(d.kids) : d.kids[i].k = key

\* d[key]
Get(d, key) == d.kids[IndexOf(d, key)].n

\* d[key] = node: an existing key keeps its position, a new key goes last
Put(d, key, node) ==
    IF Has(d, key)
    THEN Section([d.kids EXCEPT ![IndexOf(d, key)] = Pair(key, node)])
    ELSE Section(Append(d.kids, Pair(key, node)))

\* del d[key]
Del(d, key) ==
    LET i == IndexOf(d, key)
    IN Section(SubSeq(d.kids, 1, i - 1) \o SubSeq(d.kids, i + 1, Len(d.kids)))

\* d[path[1]][path[2]]...
RECURSIVE Navigate(_, _)
Navigate(d, path) ==
    IF path = <<>> THEN d ELSE Navigate(Get(d, Head(path)), Tail(path))

\* d[path[1]][path[2]]... = node, in place
RECURSIVE SetPath(_, _, _)
SetPath(d, path, node) ==
    IF path = <<>> THEN node
    ELSE Put(d, Head(path), SetPath(Get(d, Head(path)), Tail(path), node))

(***************************************************************************)
(* The wire format (vdf.dump with pretty=True, vdf.load).                  *)
(***************************************************************************)
\* Variant of Escape: only the quotes are escaped.
RECURSIVE Escape_QuotesOnly(_)
Escape_QuotesOnly(s) ==
    IF s = <<>> THEN <<>>
    ELSE (IF Head(s) = QUOTE THEN <<BSLASH, Head(s)>> ELSE <<Head(s)>>)
         \o Escape_QuotesOnly(Tail(s))

\* Backslash-escape the embedded quotes and backslashes of a string.
RECURSIVE Escape(_)
Escape(s) ==
    IF s = <<>> THEN <<>>
    ELSE (IF Head(s) \in {QUOTE, BSLASH} THEN <<BSLASH, Head(s)>> ELSE <<Head(s)>>)
         \o Escape(Tail(s))

\* The white space a writer puts between tokens: between a key and its
\* value, per nesting depth at the start of a line, and at the end of a line.
Pretty == [sep |-> <<SP>>, tab |-> <<TAB>>, nl |-> <<NL>>]
SteamLayout == [sep |-> <<TAB, TAB>>, tab |-> <<TAB>>, nl |-> <<NL>>]
Compact == [sep |-> <<>>, tab |-> <<>>, nl |-> <<>>]

\* One indentation per nesting depth.
RECURSIVE Indent(_, _)
Indent(depth, layout) ==
    IF depth = 0 THEN <<>> ELSE layout.tab \o Indent(depth - 1, layout)

\* The lines of the pairs of one section, in the stored order, the texts of
\* keys and values written as they are.
RECURSIVE WritePairs(_, _, _)
WritePairs(pairs, depth, layout) ==
    IF pairs = <<>> THEN <<>>
    ELSE LET p == Head(pairs)
             key == Indent(depth, layout) \o <<QUOTE>> \o p.k \o <<QUOTE>>
         IN (IF p.n.leaf
             THEN key \o layout.sep \o <<QUOTE>> \o p.n.v \o <<QUOTE>> \o layout.nl
             ELSE key \o layout.nl \o Indent(depth, layout) \o <<LBRACE>> \o layout.nl
                      \o WritePairs(p.n.kids, depth + 1, layout)
                      \o Indent(depth, layout) \o <<RBRACE>> \o layout.nl)
            \o WritePairs(Tail(pairs), depth, layout)

\* The pairs with every key and value escaped.
RECURSIVE Escaped(_)
Escaped(pairs) ==
    [i \in 1..Len(pairs) |->
        [k |-> Escape(pairs[i].k),
         n |-> IF pairs[i].n.leaf THEN [pairs[i].n EXCEPT !.v = Escape(@)]
               ELSE [pairs[i].n EXCEPT !.kids = Escaped(@)]]]

\* Document -> bytes in a layout; the root section has no braces of its own.
SerializePairs(pairs, layout) == WritePairs(Escaped(pairs), 0, layout)

\* vdf.dump, pretty=True
Serialize(d) == SerializePairs(d.kids, Pretty)

\* The tokenizer is a machine reading one symbol at a time.  mode: outside
\* a string, inside one, after a backslash inside one, or stopped at a symbol
\* that starts no token, where reading ends.  A token records the offset it
\* starts at.
Token(type, value, offset) == [t |-> type, v |-> value, at |-> offset]

LexInit == [mode |-> "out", start |-> 0, acc |-> <<>>, toks |-> <<>>]

LexStep(st, c, i) ==
    IF st.mode = "stop" THEN st
    ELSE IF st.mode = "out"
    THEN IF c \in WhiteSpace THEN st
         ELSE IF c = LBRACE THEN [st EXCEPT !.toks = Append(@, Token("open", <<>>, i))]
         ELSE IF c = RBRACE THEN [st EXCEPT !.toks = Append(@, Token("close", <<>>, i))]
         ELSE IF c = QUOTE THEN [st EXCEPT !.mode = "in", !.start = i, !.acc = <<>>]
         ELSE [st EXCEPT !.mode = "stop", !.toks = Append(@, Token("stray", <<>>, i))]
    ELSE IF st.mode = "in"
    THEN IF c = QUOTE
         THEN [st EXCEPT !.mode = "out", !.toks = Append(@, Token("str", st.acc, st.start))]
         ELSE IF c = BSLASH THEN [st EXCEPT !.mode = "esc"]
         ELSE [st EXCEPT !.acc = Append(@, c)]
    ELSE IF c \in {QUOTE, BSLASH}
         THEN [st EXCEPT !.mode = "in", !.acc = Append(@, c)]
         ELSE [st EXCEPT !.mode = "in", !.acc = @ \o <<BSLASH, c>>]

\* The machine's state after the symbols lo..hi of s.
RECURSIVE LexRun(_, _, _, _)
LexRun(s, lo, hi, st) ==
    IF lo > hi THEN st
    ELSE IF lo = hi THEN LexStep(st, s[lo], lo)
    ELSE LET mid == (lo + hi) \div 2
             left == LexRun(s, lo, mid, st)
         IN IF left.mode = "stop" THEN left ELSE LexRun(s, mid + 1, hi, left)

\* The tokens of s: quoted strings (unescaped) and braces; white space is
\* skipped, a string still open at the end of input is "unterminated".
Tokens(s) ==
    LET st == LexRun(s, 1, Len(s), LexInit)
    IN IF st.mode \in {"in", "esc"}
       THEN Append(st.toks, Token("unterminated", <<>>, st.start))
       ELSE st.toks

\* The parser reads one token at a time.  open: the sections being read,
\* outermost first, each with the key it is stored under; key: the key read
\* and waiting for its value.  Reading ends at the first error.
Frame(key, section) == [key |-> key, sec |-> section]

ParseInit == [open |-> <<Frame(<<>>, Section(<<>>))>>, haskey |-> FALSE, key |-> <<>>,
              err |-> FALSE, offset |-> 0]

Fail(st, offset) == [st EXCEPT !.err = TRUE, !.offset = offset]

ParseStep(st, tok) ==
    LET depth == Len(st.open)
        top == st.open[depth]
    IN IF st.err THEN st
       ELSE IF tok.t = "str"
       THEN IF st.haskey
            THEN [st EXCEPT !.open[depth].sec = Put(top.sec, st.key, Leaf(tok.v)),
                            !.haskey = FALSE]
            ELSE [st EXCEPT !.haskey = TRUE, !.key = tok.v]
       ELSE IF tok.t = "open"
       THEN IF st.haskey
            THEN [st EXCEPT !.open = Append(@, Frame(st.key, Section(<<>>))),
                            !.haskey = FALSE]
            ELSE Fail(st, tok.at)
       ELSE IF tok.t = "close"
       THEN IF st.haskey \/ depth = 1
            THEN Fail(st, tok.at)
            ELSE [st EXCEPT !.open =
                    [SubSeq(@, 1, depth - 1) EXCEPT
                        ![depth - 1].sec = Put(@, top.key, top.sec)]]
       ELSE Fail(st, tok.at)

\* The parser's state after the tokens lo..hi.
RECURSIVE ParseRun(_, _, _, _)
ParseRun(toks, lo, hi, st) ==
    IF lo > hi THEN st
    ELSE IF lo = hi THEN ParseStep(st, toks[lo])
    ELSE LET mid == (lo + hi) \div 2
             left == ParseRun(toks, lo, mid, st)
         IN IF left.err THEN left ELSE ParseRun(toks, mid + 1, hi, left)

ParseError(offset) == [ok |-> FALSE, doc |-> Section(<<>>), offset |-> offset]

\* bytes -> Document or ParseError (vdf.load).  A key given twice in one
\* section keeps its first position and its last value.
Parse(b) ==
    LET toks == Tokens(b)
        st == ParseRun(toks, 1, Len(toks), ParseInit)
    IN IF st.err THEN ParseError(st.offset)
       ELSE IF st.haskey \/ Len(st.open) > 1 THEN ParseError(Len(b) + 1)
       ELSE [ok |-> TRUE, doc |-> st.open[1].sec, offset |-> 0]

(***************************************************************************)
(* The program.                                                            *)
(***************************************************************************)
\* The module constant OVERWRITE; the edit loop reads it, not self.overwrite.
OVERWRITE == FALSE

LaunchOptions == Str("LaunchOptions")
UserLocalConfigStore == Str("UserLocalConfigStore")

\* data["UserLocalConfigStore"]["Software"]["Valve"]["Steam"]["apps"]
AppsPath == <<UserLocalConfigStore, Str("Software"), Str("Valve"), Str("Steam"), Str("apps")>>

\* data["UserLocalConfigStore"]["friends"][loc_user_id]["name"]
NamePath(loc_user_id) == <<UserLocalConfigStore, Str("friends"), loc_user_id, Str("name")>>

\* The user folders under Steam/userdata and the user name each config holds.
UserIds == {Str("111"), Str("222")}
NameOf(loc_user_id) == IF loc_user_id = Str("111") THEN Str("alice") ELSE Str("bob")
UserNames == {NameOf(id) : id \in UserIds}

\* The texts typed into the "Launch options:" field; <<>> is the blank field.
Wanted == <<"-x", SP, QUOTE, "b", BSLASH, "c", QUOTE>>
NewOptions == {<<>>, Wanted}

\* The app records a library is made of.
AppConfs ==
    { Section(<<>>),
      Section(<<Pair(LaunchOptions, Leaf(Wanted))>>),
      Section(<<Pair(Str("LastPlayed"), Leaf(Str("1")))>>),
      Section(<<Pair(Str("LastPlayed"), Leaf(Str("1"))),
                Pair(LaunchOptions, Leaf(<<"-a", SP, BSLASH, QUOTE>>)),
                Pair(Str("cloud"), Section(<<Pair(Str("quota"), Leaf(Str("2")))>>))>>) }

AppId(i) == Str(ToString(10 * i))

\* The apps section of a library: app i is keyed by its id.
AppsOf(confs) == Section([i \in 1..Len(confs) |-> Pair(AppId(i), confs[i])])

\* The localconfig.vdf document of a user with the given apps.
UserDoc(loc_user_id, confs) ==
    Section(<<Pair(UserLocalConfigStore, Section(<<
        Pair(Str("friends"), Section(<<
            Pair(loc_user_id, Section(<<Pair(Str("name"), Leaf(NameOf(loc_user_id)))>>))>>)),
        Pair(Str("Software"), Section(<<
            Pair(Str("Valve"), Section(<<
                Pair(Str("Steam"), Section(<<
                    Pair(Str("apps"), AppsOf(confs))>>))>>))>>))>>))>>)

AppLists == UNION {[1..n -> AppConfs] : n \in 0..MaxApps}

\* The library of the second user: one app, with launch options of its own.
SecondLists == {<<Section(<<Pair(LaunchOptions, Leaf(Str("-b")))>>)>>}

\* The libraries found on the machine: the apps of every user.
Libraries ==
    {[id \in UserIds |-> IF id = Str("111") THEN first ELSE second] :
        first \in AppLists, second \in SecondLists}

\* load_user_config: the name under which the parsed file of the user is
\* recorded, and self.user_local_ids afterwards.
LoadedName(loc_user_id, data) == Navigate(data, NamePath(loc_user_id)).v
LoadedIds(ids, loc_user_id, data) ==
    [n \in DOMAIN ids \cup {LoadedName(loc_user_id, data)} |->
        IF n = LoadedName(loc_user_id, data) THEN loc_user_id ELSE ids[n]]

\* The statistics line: the number of games and how many have launch options.
Statistics(appconfs) ==
    [games |-> Len(appconfs.kids),
     have_ops |-> Cardinality({i \in 1..Len(appconfs.kids) :
                                  Has(appconfs.kids[i].n, LaunchOptions)})]

\* Variants of EditAppconf, each with one slip.
\* The differing options are overwritten although OVERWRITE is off.
EditAppconf_Overwriting(appconf, new_option) ==
    IF Has(appconf, LaunchOptions)
    THEN IF new_option # <<>>
         THEN IF Get(appconf, LaunchOptions) # Leaf(new_option)
              THEN [appconf |-> Put(appconf, LaunchOptions, Leaf(new_option)), altered |-> 1]
              ELSE [appconf |-> appconf, altered |-> 0]
         ELSE [appconf |-> Del(appconf, LaunchOptions), altered |-> 1]
    ELSE IF new_option # <<>>
         THEN [appconf |-> Put(appconf, LaunchOptions, Leaf(new_option)), altered |-> 1]
         ELSE [appconf |-> appconf, altered |-> 0]

\* An erasing blanks the options and keeps the key.
EditAppconf_Blanking(appconf, new_option) ==
    IF Has(appconf, LaunchOptions)
    THEN IF new_option # <<>>
         THEN [appconf |-> appconf, altered |-> 0]
         ELSE [appconf |-> Put(appconf, LaunchOptions, Leaf(<<>>)), altered |-> 1]
    ELSE IF new_option # <<>>
         THEN [appconf |-> Put(appconf, LaunchOptions, Leaf(new_option)), altered |-> 1]
         ELSE [appconf |-> appconf, altered |-> 0]

\* A new key goes first in the app's section.
EditAppconf_Prepending(appconf, new_option) ==
    IF Has(appconf, LaunchOptions)
    THEN IF new_option # <<>>
         THEN [appconf |-> appconf, altered |-> 0]
         ELSE [appconf |-> Del(appconf, LaunchOptions), altered |-> 1]
    ELSE IF new_option # <<>>
         THEN [appconf |-> Section(<<Pair(LaunchOptions, Leaf(new_option))>> \o appconf.kids),
               altered |-> 1]
         ELSE [appconf |-> appconf, altered |-> 0]

\* The differing options that are kept are counted as altered.
EditAppconf_CountingKept(appconf, new_option) ==
    IF Has(appconf, LaunchOptions)
    THEN IF new_option # <<>>
         THEN IF Get(appconf, LaunchOptions) # Leaf(new_option)
              THEN [appconf |-> appconf, altered |-> 1]
              ELSE [appconf |-> appconf, altered |-> 0]
         ELSE [appconf |-> Del(appconf, LaunchOptions), altered |-> 1]
    ELSE IF new_option # <<>>
         THEN [appconf |-> Put(appconf, LaunchOptions, Leaf(new_option)), altered |-> 1]
         ELSE [appconf |-> appconf, altered |-> 0]

\* The last branch is an else: an app without options is given the blank text.
EditAppconf_ElseSets(appconf, new_option) ==
    IF Has(appconf, LaunchOptions)
    THEN IF new_option # <<>>
         THEN [appconf |-> appconf, altered |-> 0]
         ELSE [appconf |-> Del(appconf, LaunchOptions), altered |-> 1]
    ELSE [appconf |-> Put(appconf, LaunchOptions, Leaf(new_option)), altered |-> 1]

\* The body of the edit loop for one app: the app's config afterwards and
\* what it adds to altered.  (The lines it prints about differing options
\* that are kept go to the console and are no state.)
EditAppconf(appconf, new_option) ==
    IF Has(appconf, LaunchOptions)
    THEN IF new_option # <<>>
         THEN IF Get(appconf, LaunchOptions) # Leaf(new_option) /\ OVERWRITE
              THEN [appconf |-> Put(appconf, LaunchOptions, Leaf(new_option)), altered |-> 1]
              ELSE [appconf |-> appconf, altered |-> 0]
         ELSE [appconf |-> Del(appconf, LaunchOptions), altered |-> 1]
    ELSE IF new_option # <<>>
         THEN [appconf |-> Put(appconf, LaunchOptions, Leaf(new_option)), altered |-> 1]
         ELSE [appconf |-> appconf, altered |-> 0]

\* The edit loop over the items of cur_appconfs, in the stored order.
RECURSIVE EditLoop(_, _)
EditLoop(items, new_option) ==
    IF items = <<>> THEN [items |-> <<>>, altered |-> 0]
    ELSE LET e == EditAppconf(Head(items).n, new_option)
             rest == EditLoop(Tail(items), new_option)
         IN [items |-> <<Pair(Head(items).k, e.appconf)>> \o rest.items,
             altered |-> e.altered + rest.altered]

\* Variant of Dialog: "Changes made" whatever the count.
Dialog_AlwaysInfo(altered) == "showinfo"

\* The message box the handler ends with.
Dialog(altered) == IF altered = 0 THEN "showerror" ELSE "showinfo"

\* Variants of Written: the dump is left out; the dump is unconditional.
Written_Never(file, edit) == file
Written_Always(file, edit) == Serialize(edit.doc)

\* The user's file after the handler: dumped again when something was altered.
Written(file, edit) == IF edit.altered = 0 THEN file ELSE Serialize(edit.doc)

NoRun == [ran |-> FALSE, user |-> <<>>, new_option |-> <<>>, overwrite |-> FALSE,
          loaded |-> Section(<<>>), file_before |-> <<>>, edited |-> Section(<<>>),
          altered |-> 0]

\* Two calls that ask for the same thing: the same user, text and checkbox.
SameRequest(r1, r2) ==
    /\ r1.ran /\ r2.ran
    /\ r1.user = r2.user
    /\ r1.new_option = r2.new_option
    /\ r1.overwrite = r2.overwrite

\* scan_for_users over the files of the library lib, then the menu at the
\* user first and refresh_statistics.
InitGui(lib, first) ==
    /\ files = [id \in UserIds |-> SerializePairs(UserDoc(id, lib[id]).kids, SteamLayout)]
    /\ user_datas = [id \in UserIds |-> Parse(files[id]).doc]
    /\ user_local_ids =
          [n \in {LoadedName(id, user_datas[id]) : id \in UserIds} |->
              CHOOSE id \in UserIds : LoadedName(id, user_datas[id]) = n]
    /\ user_choice = first
    /\ statistics = Statistics(Navigate(user_datas[user_local_ids[first]], AppsPath))
    /\ overwrite = FALSE
    /\ ops_entry = <<>>
    /\ dialog = "none"
    /\ last = NoRun
    /\ prev = NoRun

RtOff ==
    /\ rt_pc = "off"
    /\ rt_in = <<>>
    /\ rt_doc = ParseError(0)
    /\ rt_out = <<>>
    /\ rt_doc2 = ParseError(0)

\* The window after MainWindow.__init__: every user folder scanned, the first
\* user of the menu selected, the statistics refreshed.  The folders are
\* listed in the order 111, 222, so that the menu starts at the user of 111.
Init ==
    /\ \E lib \in Libraries : InitGui(lib, NameOf(Str("111")))
    /\ RtOff

\* The user picks e in the user menu.
on_user_select(e) ==
    \E parsed \in {Parse(files[user_local_ids[e]])} :
        LET id == user_local_ids[e]
            data == parsed.doc
        IN /\ parsed.ok
           /\ user_choice' = e
           /\ user_local_ids' = LoadedIds(user_local_ids, id, data)
           /\ user_datas' = [user_datas EXCEPT ![id] = data]
           /\ statistics' = Statistics(Navigate(data, AppsPath))
           /\ UNCHANGED <<files, overwrite, ops_entry, dialog, last, prev, rt_vars>>

\* What set_launch_options does to the loaded document: the document after
\* the edit loop and the loop's count.
Edited(data, new_option) ==
    LET edit == EditLoop(Navigate(data, AppsPath).kids, new_option)
    IN [doc |-> SetPath(data, AppsPath, Section(edit.items)), altered |-> edit.altered]

\* The user clicks "Set", with some text in the "Launch options:" field and
\* the "Overwrite" checkbox checked or not.
set_launch_options ==
    \E parsed \in {Parse(files[user_local_ids[user_choice]])} :
    \E text \in NewOptions :
    \E edit \in {Edited(parsed.doc, text)} :
    \E checked \in BOOLEAN :
        LET id == user_local_ids[user_choice]
            ids == LoadedIds(user_local_ids, id, parsed.doc)
            run == [ran |-> TRUE, user |-> id, new_option |-> text,
                    overwrite |-> checked, loaded |-> parsed.doc,
                    file_before |-> files[id], edited |-> edit.doc,
                    altered |-> edit.altered]
        IN /\ parsed.ok
           /\ ops_entry' = text
           /\ overwrite' = checked
           /\ user_local_ids' = ids
           /\ user_datas' = [user_datas EXCEPT ![id] = edit.doc]
           /\ files' = [files EXCEPT ![ids[user_choice]] = Written(@, edit)]
           /\ dialog' = Dialog(edit.altered)
           /\ statistics' = Statistics(Navigate(edit.doc, AppsPath))
           /\ prev' = IF SameRequest(last, run) THEN last ELSE NoRun
           /\ last' = run
           /\ UNCHANGED <<user_choice, rt_vars>>

Next ==
    \/ \E e \in UserNames : on_user_select(e)
    \/ set_launch_options

Spec == Init /\ [][Next]_vars

(***************************************************************************)
(* The round trip of the wire format, on inputs of its own: load a file,   *)
(* dump the document unchanged, load the result.                           *)
(***************************************************************************)
\* Keys and values as they stand in a file: plain, with an escaped quote,
\* with an escaped backslash, with a backslash before an ordinary symbol.
RtKeys == {Str("k"), <<"q", BSLASH, QUOTE>>}
RtValues == {<<>>, <<"v", BSLASH, BSLASH>>, <<BSLASH, QUOTE, BSLASH, "n">>}
RtInner == {Leaf(v) : v \in RtValues} \cup {Section(<<>>)}
RtNodes == RtInner \cup {Section(<<Pair(k, n)>>) : k \in RtKeys, n \in RtInner}
RtPairs == {Pair(k, n) : k \in RtKeys, n \in RtNodes}
RtPairLists == UNION {[1..n -> RtPairs] : n \in 0..MaxPairs}

\* A file as some writer left it: the pairs in a layout, a key possibly given
\* twice; and the same files cut short by one symbol.
RtWhole == {WritePairs(pairs, 0, layout) :
                pairs \in RtPairLists, layout \in {SteamLayout, Compact}}
RtInputs == RtWhole \cup {SubSeq(b, 1, Len(b) - 1) : b \in RtWhole \ {<<>>}}

InitRt ==
    /\ InitGui([id \in UserIds |-> <<>>], NameOf(Str("111")))
    /\ rt_pc = "input"
    /\ rt_in \in RtInputs
    /\ rt_doc = ParseError(0)
    /\ rt_out = <<>>
    /\ rt_doc2 = ParseError(0)

RtLoad ==
    /\ rt_pc = "input"
    /\ rt_doc' = Parse(rt_in)
    /\ rt_pc' = IF rt_doc'.ok THEN "loaded" ELSE "rejected"
    /\ UNCHANGED <<rt_in, rt_out, rt_doc2, gui_vars>>

RtDump ==
    /\ rt_pc = "loaded"
    /\ rt_out' = Serialize(rt_doc.doc)
    /\ rt_pc' = "dumped"
    /\ UNCHANGED <<rt_in, rt_doc, rt_doc2, gui_vars>>

RtReload ==
    /\ rt_pc = "dumped"
    /\ rt_doc2' = Parse(rt_out)
    /\ rt_pc' = "done"
    /\ UNCHANGED <<rt_in, rt_doc, rt_out, gui_vars>>

NextRt == RtLoad \/ RtDump \/ RtReload

SpecRt == InitRt /\ [][NextRt]_vars

(***************************************************************************)
(* The claims.  They speak of the last call of set_launch_options: the     *)
(* apps it loaded and the apps it left.                                    *)
(***************************************************************************)
Before == Navigate(last.loaded, AppsPath).kids
After == Navigate(last.edited, AppsPath).kids
HasOps(items, i) == Has(items[i].n, LaunchOptions)
Ops(items, i) == Get(items[i].n, LaunchOptions)
SetRun == last.ran /\ last.new_option # <<>>
EraseRun == last.ran /\ last.new_option = <<>>

\* C1: with "Overwrite" checked and a non-blank text, every app has the text
\* as its LaunchOptions after the call, those with other options included.
C1_OverwriteSetsEveryApp ==
    (SetRun /\ last.overwrite) =>
        \A i \in 1..Len(After) : HasOps(After, i) /\ Ops(After, i) = Leaf(last.new_option)

\* C2: with "Overwrite" unchecked and a non-blank text, exactly the apps
\* without LaunchOptions get the text, and every app that had LaunchOptions
\* keeps its value.
C2_OnlyBlankAppsAreSet ==
    (SetRun /\ ~last.overwrite) =>
        /\ Len(After) = Len(Before)
        /\ \A i \in 1..Len(Before) :
              /\ HasOps(After, i)
              /\ Ops(After, i) = IF HasOps(Before, i) THEN Ops(Before, i)
                                 ELSE Leaf(last.new_option)

C2_Witness ==
    /\ SetRun /\ ~last.overwrite
    /\ Len(Before) = 2
    /\ ~HasOps(Before, 1) /\ Ops(After, 1) = Leaf(Wanted)
    /\ HasOps(Before, 2) /\ Ops(Before, 2) # Leaf(Wanted) /\ Ops(After, 2) = Ops(Before, 2)

\* C3: with a blank text, checked or not, no app has the LaunchOptions key
\* after the call, and when every app had it altered is the number of apps.
C3_EraseClearsField ==
    EraseRun =>
        /\ Len(After) = Len(Before)
        /\ \A i \in 1..Len(After) : ~HasOps(After, i)
        /\ (\A i \in 1..Len(Before) : HasOps(Before, i)) => last.altered = Len(Before)

C3_Witness ==
    /\ EraseRun /\ last.overwrite
    /\ Len(Before) = 2
    /\ \A i \in 1..2 : HasOps(Before, i) /\ ~HasOps(After, i)
    /\ last.altered = 2

\* The pairs of a section other than LaunchOptions, in their order.
Others(appconf) == SelectSeq(appconf.kids, LAMBDA p : p.k # LaunchOptions)

\* C4: the call changes nothing but the LaunchOptions field of the apps: the
\* apps and their order, every other pair of every app and all below it, and
\* the rest of the document stay; options that stay keep their position and
\* new ones come last in their app.
C4_OnlyLaunchOptionsChange ==
    last.ran =>
        /\ SetPath(last.edited, AppsPath, Section(Before)) = last.loaded
        /\ Len(After) = Len(Before)
        /\ \A i \in 1..Len(Before) :
              /\ After[i].k = Before[i].k
              /\ Others(After[i].n) = Others(Before[i].n)
              /\ (HasOps(Before, i) /\ HasOps(After, i)) =>
                    IndexOf(After[i].n, LaunchOptions) = IndexOf(Before[i].n, LaunchOptions)
              /\ (~HasOps(Before, i) /\ HasOps(After, i)) =>
                    IndexOf(After[i].n, LaunchOptions) = Len(After[i].n.kids)

C4_Witness ==
    /\ SetRun
    /\ Len(Before) = 2
    /\ ~HasOps(Before, 1) /\ Len(Before[1].n.kids) = 1 /\ HasOps(After, 1)
    /\ HasOps(Before, 2) /\ Len(Before[2].n.kids) = 3 /\ HasOps(After, 2)

\* The LaunchOptions field of app i differs between two lists of apps.
FieldDiffers(i) ==
    \/ HasOps(Before, i) # HasOps(After, i)
    \/ HasOps(Before, i) /\ HasOps(After, i) /\ Ops(Before, i) # Ops(After, i)

\* C5: altered is the number of apps whose LaunchOptions field differs
\* between before and after the call.
C5_AlteredCountsChangedApps ==
    last.ran =>
        /\ Len(After) = Len(Before)
        /\ last.altered = Cardinality({i \in 1..Len(Before) : FieldDiffers(i)})

C5_Witness ==
    /\ SetRun
    /\ Len(Before) = 2
    /\ last.altered = 1
    /\ FieldDiffers(1) /\ ~FieldDiffers(2)
    /\ HasOps(Before, 2) /\ Ops(Before, 2) # Leaf(last.new_option)

\* C6: a file that loads, dumped unchanged and loaded again, gives the same
\* document: the same keys, in the same order, with the same values.
C6_RoundTrip ==
    rt_pc = "done" => rt_doc2.ok /\ rt_doc2.doc = rt_doc.doc

C6_Witness ==
    /\ rt_pc = "done"
    /\ rt_out # rt_in
    /\ Len(rt_doc.doc.kids) = 2
    /\ rt_doc.doc.kids[1].k = <<"q", QUOTE>>
    /\ rt_doc.doc.kids[1].n = Section(<<Pair(Str("k"), Leaf(<<"v", BSLASH>>))>>)
    /\ rt_doc.doc.kids[2].n = Leaf(<<QUOTE, BSLASH, "n">>)

\* C7: with no apps the call counts altered = 0 and signals no error to the
\* user.
C7_NoAppsNoError ==
    (last.ran /\ Before = <<>>) => last.altered = 0 /\ dialog # "showerror"

\* C7, amended: with no apps the call counts altered = 0, leaves the file
\* and the document as loaded, and ends with the "No changes made" error box.
C7_NoAppsNoChangesBox ==
    (last.ran /\ Before = <<>>) =>
        /\ last.altered = 0
        /\ last.edited = last.loaded
        /\ files[last.user] = last.file_before
        /\ dialog = "showerror"

C7_Witness ==
    /\ last.ran /\ Before = <<>>
    /\ last.new_option = Wanted /\ last.overwrite
    /\ dialog = "showerror"

\* C8: a call with "Overwrite" checked and a non-blank text, made again for
\* the same user with the same text and "Overwrite" checked, counts
\* altered = 0 the second time.
C8_SecondOverwriteAltersNothing ==
    (prev.ran /\ SetRun /\ last.overwrite) => last.altered = 0

C8_Witness ==
    /\ prev.ran /\ SetRun /\ last.overwrite
    /\ prev.altered = 1
    /\ \E i \in 1..Len(Before) : Ops(Before, i) # Leaf(last.new_option)
    /\ last.altered = 0

PrevBefore == Navigate(prev.loaded, AppsPath).kids

\* C9: when no app is missing LaunchOptions, erasing twice in a row with
\* "Overwrite" unchecked counts altered = 0 both times and leaves the tree
\* unchanged.
C9_EraseTwiceWhenAllHave ==
    (prev.ran /\ EraseRun /\ ~last.overwrite
        /\ \A i \in 1..Len(PrevBefore) : HasOps(PrevBefore, i)) =>
        /\ prev.altered = 0 /\ last.altered = 0
        /\ prev.edited = prev.loaded /\ last.edited = prev.loaded

\* C9, amended: when every app is missing LaunchOptions, erasing twice in a
\* row with "Overwrite" unchecked counts altered = 0 both times and leaves
\* the tree unchanged.
C9_EraseTwiceWhenNoneHas ==
    (prev.ran /\ EraseRun /\ ~last.overwrite
        /\ \A i \in 1..Len(PrevBefore) : ~HasOps(PrevBefore, i)) =>
        /\ prev.altered = 0 /\ last.altered = 0
        /\ prev.edited = prev.loaded /\ last.edited = prev.loaded

C9_Witness ==
    /\ prev.ran /\ EraseRun /\ ~last.overwrite
    /\ Len(PrevBefore) = 2
    /\ \A i \in 1..2 : ~HasOps(PrevBefore, i)
    /\ Len(PrevBefore[2].n.kids) = 1
    /\ last.altered = 0

\* C10: after a call the file of the selected user holds the document in
\* memory: the call loaded the file, dumped the document when altered > 0,
\* and left file and document as loaded when altered = 0.
C10_FileHoldsDocument ==
    LET id == user_local_ids[user_choice]
    IN /\ Parse(files[id]) = [ok |-> TRUE, doc |-> user_datas[id], offset |-> 0]
       /\ last.ran =>
             /\ last.altered > 0 => files[last.user] = Serialize(last.edited)
             /\ last.altered = 0 => /\ files[last.user] = last.file_before
                                    /\ last.edited = last.loaded

C10_Witness ==
    /\ SetRun
    /\ user_local_ids[user_choice] = last.user
    /\ last.altered = 1
    /\ files[last.user] # last.file_before
    /\ Parse(files[last.user]).doc = user_datas[last.user]
    /\ user_datas[last.user] # last.loaded

====
